---- MODULE Spec2Model ----
(***************************************************************************)
(* A model of the BadgerDB buffer manager (BufMgr, src/src/buffer.cpp):    *)
(* a pool of NumBufs frames, their descriptors, the (file, page) -> frame  *)
(* hash table and the clock hand, with one action per public method.       *)
(* The File collaborator is modelled by the set of pages it has allocated  *)
(* and by the list of calls each operation makes on it.                    *)
(***************************************************************************)
EXTENDS Integers, Sequences, FiniteSets, TLC

\* ---------------------------------------------------------------- bounds
NumBufs == 2      \* bufs, the constructor's argument
NumFiles == 2     \* distinct File objects the callers use
MaxPage == 2      \* page numbers of a file are 1..MaxPage
MaxPin == 2       \* callers hold at most MaxPin pins on one frame
NumThreads == 2   \* caller threads of the concurrent specification

Frames == 0 .. (NumBufs - 1)
Files == 1 .. NumFiles
Pages == 1 .. MaxPage
Threads == 1 .. NumThreads
NoFile == 0           \* a null File pointer
NoFrame == NumBufs    \* no frame was returned to the caller

VARIABLES
    bufDescTable,   \* [Frames -> descriptor]
    bufPool,        \* [Frames -> page number of the Page object held in the frame]
    hashTable,      \* set of [file, pageNo, frameNo] entries
    clockHand,      \* FrameId
    allocated,      \* [Files -> set of page numbers allocated in the file]
    clearKeepsFile, \* build choice: does BufDesc::Clear leave `file` as it was
    lastOp,         \* the last call made on the manager, its outcome and its File calls
    pending         \* [Threads -> the readPage call the thread is inside, see IdleCall]

vars == <<bufDescTable, bufPool, hashTable, clockHand, allocated, clearKeepsFile, lastOp,
          pending>>

\* ---------------------------------------------------------------- BufDesc
\* BufDesc::Clear(): the descriptor of an empty frame. The specification
\* describes the reference both as resetting the descriptor and as leaving
\* `file` untouched; keep selects between the two.
Clear(d, keep) ==
    [valid |-> FALSE, file |-> IF keep THEN d.file ELSE NoFile, pageNo |-> 0,
     pinCnt |-> 0, dirty |-> FALSE, refbit |-> FALSE]

\* BufDesc::Set(file, pageNo): identity installed, pinCnt = 1, other bits reset.
Set(file, pageNo) ==
    [valid |-> TRUE, file |-> file, pageNo |-> pageNo,
     pinCnt |-> 1, dirty |-> FALSE, refbit |-> FALSE]

EmptyDesc ==
    [valid |-> FALSE, file |-> NoFile, pageNo |-> 0,
     pinCnt |-> 0, dirty |-> FALSE, refbit |-> FALSE]

\* ---------------------------------------------------------------- BufHashTbl
HashEntries(ht, file, pageNo) == {e \in ht : e.file = file /\ e.pageNo = pageNo}

\* lookup(): found, and the frame number of the entry
HashFound(ht, file, pageNo) == HashEntries(ht, file, pageNo) # {}

HashLookup(ht, file, pageNo) ==
    (CHOOSE e \in HashEntries(ht, file, pageNo) : TRUE).frameNo

\* insert() of a key that is absent (readPage has looked the key up; allocPage
\* tests it, see there)
HashInsert(ht, file, pageNo, frameNo) ==
    ht \cup {[file |-> file, pageNo |-> pageNo, frameNo |-> frameNo]}

\* remove() of a key that is present: every caller removes the key of a
\* valid frame or a key it has looked up
HashRemove(ht, file, pageNo) == ht \ HashEntries(ht, file, pageNo)

\* ---------------------------------------------------------------- File calls
IoCall(call, file, pageNo) == [call |-> call, file |-> file, pageNo |-> pageNo]

\* ---------------------------------------------------------------- pool state
\* The part of the manager that allocBuf and the public methods work on.
PoolState == [desc |-> bufDescTable, pool |-> bufPool, ht |-> hashTable,
              hand |-> clockHand, io |-> <<>>]

\* BufMgr::advanceClock
advanceClock(hand) == (hand + 1) % NumBufs

\* Seeded fault for C3: the victim test forgets the pin count.
IsPinned_Never(d) == FALSE

\* One inspection of the frame under the hand: is it taken as it stands,
\* skipped, or evicted (lines 76-93).
\* The victim test of line 82: a pinned frame is passed over.
IsPinned(d) == d.pinCnt # 0

\* Seeded fault for C2: the victim's entry stays in the hash table.
EvictFrame_KeepsEntry(s, h) ==
    LET d == s.desc[h] IN
    [s EXCEPT
       !.desc[h].dirty = FALSE,
       !.io = IF d.dirty THEN Append(s.io, IoCall("writePage", d.file, s.pool[h]))
              ELSE s.io]

\* Seeded fault for C4: a dirty victim is dropped without a writePage.
EvictFrame_NoWriteBack(s, h) ==
    LET d == s.desc[h] IN
    [s EXCEPT
       !.ht = HashRemove(s.ht, d.file, d.pageNo),
       !.desc[h].dirty = FALSE]

\* Lines 85-91: the victim's entry leaves the hash table and a dirty victim
\* is written back through its file.
EvictFrame(s, h) ==
    LET d == s.desc[h] IN
    [s EXCEPT
       !.ht = HashRemove(s.ht, d.file, d.pageNo),
       !.desc[h].dirty = FALSE,
       !.io = IF d.dirty THEN Append(s.io, IoCall("writePage", d.file, s.pool[h]))
              ELSE s.io]

\* Seeded fault for C19: no second chance, an unpinned frame is taken although
\* its refbit is set.
RECURSIVE AllocLoop_NoSecondChance(_, _)
AllocLoop_NoSecondChance(s, i) ==
    IF i > NumBufs THEN [s |-> s, found |-> FALSE, i |-> i]
    ELSE LET h == advanceClock(s.hand)
             t == [s EXCEPT !.hand = h]
         IN  IF ~t.desc[h].valid THEN [s |-> t, found |-> TRUE, i |-> i]
             ELSE IF IsPinned(t.desc[h]) THEN AllocLoop_NoSecondChance(t, i + 1)
             ELSE [s |-> EvictFrame(t, h), found |-> TRUE, i |-> i]

\* The for loop of allocBuf (lines 73-94), from iteration i on. The result
\* carries found and the final i with the pool state.
RECURSIVE AllocLoop(_, _)
AllocLoop(s, i) ==
    IF i > NumBufs THEN [s |-> s, found |-> FALSE, i |-> i]
    ELSE LET h == advanceClock(s.hand)
             t == [s EXCEPT !.hand = h]
         IN  IF ~t.desc[h].valid THEN [s |-> t, found |-> TRUE, i |-> i]
             ELSE IF t.desc[h].refbit
                  THEN AllocLoop([t EXCEPT !.desc[h].refbit = FALSE], i + 1)
             ELSE IF IsPinned(t.desc[h]) THEN AllocLoop(t, i + 1)
             ELSE [s |-> EvictFrame(t, h), found |-> TRUE, i |-> i]

\* BufMgr::allocBuf: exc is the exception thrown ("none" when it returns),
\* frame the frame handed out, advances the number of advanceClock calls.
allocBuf(s, keep) ==
    LET r == AllocLoop(s, 0)
        advances == IF r.found THEN r.i + 1 ELSE r.i
    IN  IF ~r.found /\ r.i >= NumBufs
        THEN [s |-> r.s, exc |-> "BufferExceeded", frame |-> NoFrame,
              advances |-> advances]
        ELSE [s |-> [r.s EXCEPT !.desc[r.s.hand] = Clear(@, keep)],
              exc |-> "none", frame |-> r.s.hand, advances |-> advances]

\* ---------------------------------------------------------------- methods
\* Each method maps the pool state to [s, exc, frame]; the actions below
\* install the result.

\* Seeded fault for C5: a hit adds the pin and leaves the refbit.
PinHit_NoRefbit(d) == [d EXCEPT !.pinCnt = @ + 1]

\* Lines 117-118: a hit sets the refbit and adds a pin.
PinHit(d) == [d EXCEPT !.refbit = TRUE, !.pinCnt = @ + 1]

\* Seeded fault for C13: the mapping is installed before file->readPage.
readPage_InstallsBeforeRead(s, keep, alloc, file, pageNo) ==
    IF HashFound(s.ht, file, pageNo)
    THEN LET f == HashLookup(s.ht, file, pageNo)
         IN  [s |-> [s EXCEPT !.desc[f] = PinHit(@)], exc |-> "none", frame |-> f]
    ELSE LET a == allocBuf(s, keep)
             f == a.frame
             rd == [a.s EXCEPT !.io = Append(@, IoCall("readPage", file, pageNo)),
                               !.ht = HashInsert(@, file, pageNo, f),
                               !.desc[f] = Set(file, pageNo)]
         IN  IF a.exc # "none" THEN [s |-> a.s, exc |-> a.exc, frame |-> NoFrame]
             ELSE IF pageNo \notin alloc[file]
                  THEN [s |-> rd, exc |-> "InvalidPage", frame |-> NoFrame]
             ELSE [s |-> [rd EXCEPT !.pool[f] = pageNo], exc |-> "none", frame |-> f]

\* BufMgr::readPage
readPage(s, keep, alloc, file, pageNo) ==
    IF HashFound(s.ht, file, pageNo)
    THEN LET f == HashLookup(s.ht, file, pageNo)
         IN  [s |-> [s EXCEPT !.desc[f] = PinHit(@)], exc |-> "none", frame |-> f]
    ELSE LET a == allocBuf(s, keep)
             f == a.frame
             rd == [a.s EXCEPT !.io = Append(@, IoCall("readPage", file, pageNo))]
         IN  IF a.exc # "none" THEN [s |-> a.s, exc |-> a.exc, frame |-> NoFrame]
             ELSE IF pageNo \notin alloc[file]
                  THEN [s |-> rd, exc |-> "InvalidPage", frame |-> NoFrame]
             ELSE [s |-> [rd EXCEPT !.pool[f] = pageNo,
                                    !.ht = HashInsert(@, file, pageNo, f),
                                    !.desc[f] = Set(file, pageNo)],
                   exc |-> "none", frame |-> f]

\* Seeded fault for C16: unPinPage leaves the pin count as it is.
UnPin_NoDecrement(d, dirty) == [d EXCEPT !.dirty = IF dirty THEN TRUE ELSE @]

\* Seeded fault for C8: the caller's flag is assigned to the dirty bit.
UnPin_AssignsDirty(d, dirty) == [d EXCEPT !.pinCnt = @ - 1, !.dirty = dirty]

\* Lines 146-147: one pin is dropped and the caller's dirty flag is recorded.
UnPin(d, dirty) == [d EXCEPT !.pinCnt = @ - 1, !.dirty = IF dirty THEN TRUE ELSE @]

\* Seeded fault for C6: the pin count is not tested before the decrement.
unPinPage_NoPinCheck(s, file, pageNo, dirty) ==
    IF ~HashFound(s.ht, file, pageNo)
    THEN [s |-> s, exc |-> "none", frame |-> NoFrame]
    ELSE LET f == HashLookup(s.ht, file, pageNo)
         IN  [s |-> [s EXCEPT !.desc[f] = UnPin(@, dirty)],
              exc |-> "none", frame |-> NoFrame]

\* Seeded fault for C7: HashNotFoundException is not caught.
unPinPage_ThrowsOnMiss(s, file, pageNo, dirty) ==
    IF ~HashFound(s.ht, file, pageNo)
    THEN [s |-> s, exc |-> "HashNotFound", frame |-> NoFrame]
    ELSE LET f == HashLookup(s.ht, file, pageNo)
         IN  IF s.desc[f].pinCnt = 0
             THEN [s |-> s, exc |-> "PageNotPinned", frame |-> NoFrame]
             ELSE [s |-> [s EXCEPT !.desc[f] = UnPin(@, dirty)],
                   exc |-> "none", frame |-> NoFrame]

\* BufMgr::unPinPage
unPinPage(s, file, pageNo, dirty) ==
    IF ~HashFound(s.ht, file, pageNo)
    THEN [s |-> s, exc |-> "none", frame |-> NoFrame]
    ELSE LET f == HashLookup(s.ht, file, pageNo)
         IN  IF s.desc[f].pinCnt = 0
             THEN [s |-> s, exc |-> "PageNotPinned", frame |-> NoFrame]
             ELSE [s |-> [s EXCEPT !.desc[f] = UnPin(@, dirty)],
                   exc |-> "none", frame |-> NoFrame]

\* BufMgr::allocPage, when allocBuf has returned and file->allocatePage()
\* has produced the fresh page pageNo.
allocPage(s, keep, file, pageNo) ==
    LET a == allocBuf(s, keep)
        f == a.frame
        got == [a.s EXCEPT !.io = Append(@, IoCall("allocatePage", file, pageNo)),
                           !.pool[f] = pageNo]
    IN  IF a.exc # "none" THEN [s |-> a.s, exc |-> a.exc, frame |-> NoFrame]
        ELSE IF HashFound(got.ht, file, pageNo)
             THEN [s |-> got, exc |-> "HashAlreadyPresent", frame |-> NoFrame]
        ELSE [s |-> [got EXCEPT !.ht = HashInsert(@, file, pageNo, f),
                                !.desc[f] = Set(file, pageNo)],
              exc |-> "none", frame |-> f]

\* Seeded fault for C9: a dirty frame is cleared without a writePage.
FlushFrame_NoWriteBack(s, keep, file, i) ==
    LET d == s.desc[i] IN
    [s EXCEPT
       !.ht = HashRemove(@, file, d.pageNo),
       !.desc[i] = Clear(d, keep)]

\* Lines 191-197: frame i of the flushed file is written back when dirty,
\* leaves the hash table and is cleared.
FlushFrame(s, keep, file, i) ==
    LET d == s.desc[i] IN
    [s EXCEPT
       !.io = IF d.dirty THEN Append(@, IoCall("writePage", d.file, s.pool[i])) ELSE @,
       !.ht = HashRemove(@, file, d.pageNo),
       !.desc[i] = Clear(d, keep)]

\* The for loop of flushFile (lines 181-200), from frame i on.
RECURSIVE FlushLoop(_, _, _, _)
FlushLoop(s, keep, file, i) ==
    IF i >= NumBufs THEN [s |-> s, exc |-> "none", frame |-> NoFrame]
    ELSE IF s.desc[i].file = file /\ ~s.desc[i].valid
         THEN [s |-> s, exc |-> "BadBuffer", frame |-> NoFrame]
    ELSE IF s.desc[i].file = file /\ s.desc[i].valid
         THEN IF s.desc[i].pinCnt # 0
              THEN [s |-> s, exc |-> "PagePinned", frame |-> NoFrame]
              ELSE FlushLoop(FlushFrame(s, keep, file, i), keep, file, i + 1)
    ELSE FlushLoop(s, keep, file, i + 1)

\* BufMgr::flushFile
flushFile(s, keep, file) == FlushLoop(s, keep, file, 0)

\* Seeded fault for C15: the frame is cleared and its entry is left in the
\* hash table.
disposePage_KeepsEntry(s, keep, file, pageNo) ==
    LET del == IoCall("deletePage", file, pageNo) IN
    IF ~HashFound(s.ht, file, pageNo)
    THEN [s |-> [s EXCEPT !.io = Append(@, del)], exc |-> "none", frame |-> NoFrame]
    ELSE LET f == HashLookup(s.ht, file, pageNo)
             d == s.desc[f]
         IN  [s |-> [s EXCEPT
                       !.io = (IF d.dirty
                               THEN Append(@, IoCall("writePage", file, s.pool[f]))
                               ELSE @) \o <<del>>,
                       !.desc[f] = Clear(d, keep)],
              exc |-> "none", frame |-> NoFrame]

\* BufMgr::disposePage
disposePage(s, keep, file, pageNo) ==
    LET del == IoCall("deletePage", file, pageNo) IN
    IF ~HashFound(s.ht, file, pageNo)
    THEN [s |-> [s EXCEPT !.io = Append(@, del)], exc |-> "none", frame |-> NoFrame]
    ELSE LET f == HashLookup(s.ht, file, pageNo)
             d == s.desc[f]
         IN  [s |-> [s EXCEPT
                       !.io = (IF d.dirty
                               THEN Append(@, IoCall("writePage", file, s.pool[f]))
                               ELSE @) \o <<del>>,
                       !.desc[f] = Clear(d, keep),
                       !.ht = HashRemove(@, file, pageNo)],
              exc |-> "none", frame |-> NoFrame]

\* ---------------------------------------------------------------- actions
\* BufMgr::BufMgr: every frame empty, the hand on the last frame. The files
\* exist before the manager and hold any set of pages.
\* A thread's call of readPage: pc is "idle" before the call, "io" while the
\* call is suspended in file->readPage (line 123) and "done" after it; frame is
\* the local frameNum, io the File calls the call has made.
IdleCall == [pc |-> "idle", file |-> NoFile, pageNo |-> 0, frame |-> NoFrame,
             result |-> "none", io |-> <<>>]

Init ==
    /\ bufDescTable = [f \in Frames |-> EmptyDesc]
    /\ bufPool = [f \in Frames |-> 0]
    /\ hashTable = {}
    /\ clockHand = NumBufs - 1
    /\ allocated \in [Files -> SUBSET Pages]
    /\ clearKeepsFile \in BOOLEAN
    /\ lastOp = [op |-> "BufMgr", file |-> NoFile, pageNo |-> 0, dirty |-> FALSE,
                 result |-> "none", frame |-> NoFrame, io |-> <<>>]
    /\ pending = [t \in Threads |-> IdleCall]

\* The outcome r of a method is installed and recorded.
Install(op, file, pageNo, dirty, r) ==
    /\ bufDescTable' = r.s.desc
    /\ bufPool' = r.s.pool
    /\ hashTable' = r.s.ht
    /\ clockHand' = r.s.hand
    /\ lastOp' = [op |-> op, file |-> file, pageNo |-> pageNo, dirty |-> dirty,
                  result |-> r.exc, frame |-> r.frame, io |-> r.s.io]
    /\ UNCHANGED pending

ReadPage(file, pageNo) ==
    /\ HashFound(hashTable, file, pageNo) =>
           bufDescTable[HashLookup(hashTable, file, pageNo)].pinCnt < MaxPin
    /\ Install("readPage", file, pageNo, FALSE,
               readPage(PoolState, clearKeepsFile, allocated, file, pageNo))
    /\ UNCHANGED <<allocated, clearKeepsFile>>

UnPinPage(file, pageNo, dirty) ==
    /\ Install("unPinPage", file, pageNo, dirty, unPinPage(PoolState, file, pageNo, dirty))
    /\ UNCHANGED <<allocated, clearKeepsFile>>

\* file->allocatePage() returns any page number the file does not hold.
\* Seeded fault for C20: file->allocatePage is called before allocBuf.
AllocPage_AllocatesFirst(file) ==
    \E pageNo \in Pages \ allocated[file] :
        LET a == allocBuf(PoolState, clearKeepsFile)
            first == IoCall("allocatePage", file, pageNo)
        IN  /\ IF a.exc # "none"
               THEN Install("allocPage", file, 0, FALSE,
                            [s |-> [a.s EXCEPT !.io = <<first>> \o @],
                             exc |-> a.exc, frame |-> NoFrame])
               ELSE Install("allocPage", file, pageNo, FALSE,
                            allocPage(PoolState, clearKeepsFile, file, pageNo))
            /\ allocated' = [allocated EXCEPT ![file] = @ \cup {pageNo}]
            /\ UNCHANGED clearKeepsFile

AllocPage(file) ==
    LET a == allocBuf(PoolState, clearKeepsFile) IN
    IF a.exc # "none"
    THEN /\ Install("allocPage", file, 0, FALSE,
                    [s |-> a.s, exc |-> a.exc, frame |-> NoFrame])
         /\ UNCHANGED <<allocated, clearKeepsFile>>
    ELSE \E pageNo \in Pages \ allocated[file] :
            /\ Install("allocPage", file, pageNo, FALSE,
                       allocPage(PoolState, clearKeepsFile, file, pageNo))
            /\ allocated' = [allocated EXCEPT ![file] = @ \cup {pageNo}]
            /\ UNCHANGED clearKeepsFile

FlushFile(file) ==
    /\ Install("flushFile", file, 0, FALSE, flushFile(PoolState, clearKeepsFile, file))
    /\ UNCHANGED <<allocated, clearKeepsFile>>

\* file->deletePage(pageNo) takes the page out of the file.
DisposePage(file, pageNo) ==
    /\ Install("disposePage", file, pageNo, FALSE,
               disposePage(PoolState, clearKeepsFile, file, pageNo))
    /\ allocated' = [allocated EXCEPT ![file] = @ \ {pageNo}]
    /\ UNCHANGED clearKeepsFile

Next ==
    \/ \E file \in Files, pageNo \in Pages : ReadPage(file, pageNo)
    \/ \E file \in Files, pageNo \in Pages, dirty \in BOOLEAN :
           UnPinPage(file, pageNo, dirty)
    \/ \E file \in Files : AllocPage(file)
    \/ \E file \in Files : FlushFile(file)
    \/ \E file \in Files, pageNo \in Pages : DisposePage(file, pageNo)

Spec == Init /\ [][Next]_vars

\* ---------------------------------------------------------------- helpers of the properties
Results == {"none", "BufferExceeded", "PageNotPinned", "PagePinned", "BadBuffer",
            "InvalidPage", "HashAlreadyPresent"}

\* The hash table entry a valid frame f must have.
EntryOf(desc, f) == [file |-> desc[f].file, pageNo |-> desc[f].pageNo, frameNo |-> f]

\* The positions of io that hold the call c.
Calls(io, c) == {k \in 1 .. Len(io) : io[k] = c}

\* The positions of io that hold a call of the given kind.
CallsOf(io, call) == {k \in 1 .. Len(io) : io[k].call = call}

TypeOK ==
    /\ bufDescTable \in [Frames -> [valid : BOOLEAN, file : Files \cup {NoFile},
                                    pageNo : Pages \cup {0}, pinCnt : 0 .. MaxPin,
                                    dirty : BOOLEAN, refbit : BOOLEAN]]
    /\ bufPool \in [Frames -> Pages \cup {0}]
    /\ hashTable \subseteq [file : Files, pageNo : Pages, frameNo : Frames]
    /\ clockHand \in Frames
    /\ allocated \in [Files -> SUBSET Pages]
    /\ lastOp.result \in Results

\* ---------------------------------------------------------------- C1
\* C1: allocBuf fails with BufferExceededException only when every frame is
\* valid and pinned. A failed allocBuf changes neither valid nor pinCnt, so
\* the frames after the failed call are those it saw.
C1_ExhaustedOnlyWhenAllPinned ==
    lastOp.result = "BufferExceeded" =>
        \A f \in Frames : bufDescTable[f].valid /\ bufDescTable[f].pinCnt > 0

\* ---------------------------------------------------------------- C2
\* C2: after every operation that succeeds or fails with BufferExceeded,
\* PageNotPinned or PagePinned, the hash table is exactly the set of entries
\* (file(f), pageNo(f)) -> f of the valid frames f: a frame is valid iff exactly
\* one entry maps to it, and no (file, page) is held by two frames.
C2_TableIsValidFrames ==
    lastOp.result \in {"none", "BufferExceeded", "PageNotPinned", "PagePinned"} =>
        /\ hashTable = {EntryOf(bufDescTable, f) : f \in {g \in Frames : bufDescTable[g].valid}}
        /\ \A f \in Frames :
              bufDescTable[f].valid <=>
                  Cardinality({e \in hashTable : e.frameNo = f}) = 1
        /\ \A e1, e2 \in hashTable : e1.frameNo = e2.frameNo => e1 = e2
        /\ \A f, g \in Frames :
              (/\ bufDescTable[f].valid /\ bufDescTable[g].valid
               /\ bufDescTable[f].file = bufDescTable[g].file
               /\ bufDescTable[f].pageNo = bufDescTable[g].pageNo) => f = g

\* A flushFile that wrote a page back, cleared its frame and then failed on
\* a pinned frame, with the pinned page still in the table.
C2_Witness ==
    /\ lastOp.op = "flushFile" /\ lastOp.result = "PagePinned"
    /\ Len(lastOp.io) > 0
    /\ hashTable # {}

\* ---------------------------------------------------------------- C3
\* C3: a readPage, allocPage or unPinPage call leaves every frame that was
\* pinned before the call holding the same page, with its table entry.
C3_PinnedStaysResident ==
    [][\A f \in Frames :
          (/\ lastOp'.op \in {"readPage", "allocPage", "unPinPage"}
           /\ bufDescTable[f].valid
           /\ bufDescTable[f].pinCnt > 0)
          => /\ bufDescTable'[f].valid
             /\ bufDescTable'[f].file = bufDescTable[f].file
             /\ bufDescTable'[f].pageNo = bufDescTable[f].pageNo
             /\ EntryOf(bufDescTable, f) \in hashTable']_vars

\* A readPage that evicted a dirty victim while another frame was pinned.
C3_Witness ==
    /\ lastOp.op = "readPage" /\ lastOp.result = "none"
    /\ CallsOf(lastOp.io, "writePage") # {}
    /\ \E f \in Frames : f # lastOp.frame /\ bufDescTable[f].pinCnt > 0

\* ---------------------------------------------------------------- C4
\* C4: when readPage or allocPage evicts a frame, a dirty victim is written
\* back exactly once, before the new page is read or allocated, and a clean
\* victim causes no writePage.
C4_DirtyVictimWrittenFirst ==
    [][\A f \in Frames :
          (/\ lastOp'.op \in {"readPage", "allocPage"}
           /\ bufDescTable[f].valid
           /\ EntryOf(bufDescTable, f) \notin hashTable')
          => LET io == lastOp'.io
                 wr == IoCall("writePage", bufDescTable[f].file, bufDescTable[f].pageNo)
             IN  IF bufDescTable[f].dirty
                 THEN /\ Cardinality(Calls(io, wr)) = 1
                      /\ Cardinality(CallsOf(io, "writePage")) = 1
                      /\ \A k \in CallsOf(io, "readPage") \cup CallsOf(io, "allocatePage") :
                            \A w \in Calls(io, wr) : w < k
                 ELSE CallsOf(io, "writePage") = {}]_vars

\* A readPage that wrote its dirty victim back and then read the new page.
C4_Witness ==
    /\ lastOp.op = "readPage" /\ lastOp.result = "none"
    /\ Len(lastOp.io) = 2
    /\ lastOp.io[1].call = "writePage" /\ lastOp.io[2].call = "readPage"

\* ---------------------------------------------------------------- C5
\* C5: readPage of a resident page returns its frame, adds one pin, sets the
\* refbit, reads nothing from disk and changes nothing else; and a readPage
\* that follows a successful readPage miss of the same page returns the same
\* frame, leaves pinCnt = 2 and the two calls make one file->readPage.
C5_HitPinsSameFrame ==
    [][LET o == lastOp' IN
       /\ (o.op = "readPage" /\ HashFound(hashTable, o.file, o.pageNo)) =>
             LET f == HashLookup(hashTable, o.file, o.pageNo) IN
             /\ o.result = "none" /\ o.frame = f /\ o.io = << >>
             /\ bufDescTable' = [bufDescTable EXCEPT ![f].pinCnt = @ + 1,
                                                     ![f].refbit = TRUE]
             /\ UNCHANGED <<bufPool, hashTable, clockHand, allocated>>
       /\ (/\ o.op = "readPage"
           /\ lastOp.op = "readPage" /\ lastOp.result = "none"
           /\ CallsOf(lastOp.io, "readPage") # {}
           /\ o.file = lastOp.file /\ o.pageNo = lastOp.pageNo) =>
             /\ o.result = "none" /\ o.frame = lastOp.frame
             /\ bufDescTable'[o.frame].pinCnt = 2
             /\ Cardinality(CallsOf(lastOp.io \o o.io, "readPage")) = 1]_vars

\* A readPage hit that brought the pin count of its frame to 2.
C5_Witness ==
    /\ lastOp.op = "readPage" /\ lastOp.result = "none" /\ lastOp.io = << >>
    /\ bufDescTable[lastOp.frame].pinCnt = 2
    /\ bufDescTable[lastOp.frame].refbit

\* ---------------------------------------------------------------- C6
\* C6: unPinPage of a resident page whose pinCnt is 0 fails with
\* PageNotPinned and changes no descriptor and no table entry, whatever its
\* dirty argument; and no pinCnt is ever negative.
C6_UnpinUnpinnedFails ==
    /\ [](\A f \in Frames : bufDescTable[f].pinCnt >= 0)
    /\ [][LET o == lastOp' IN
          (/\ o.op = "unPinPage"
           /\ HashFound(hashTable, o.file, o.pageNo)
           /\ bufDescTable[HashLookup(hashTable, o.file, o.pageNo)].pinCnt = 0)
          => /\ o.result = "PageNotPinned"
             /\ UNCHANGED <<bufDescTable, hashTable>>]_vars

\* An unPinPage(f, p, true) that failed on a resident, unpinned page.
C6_Witness ==
    /\ lastOp.op = "unPinPage" /\ lastOp.result = "PageNotPinned" /\ lastOp.dirty
    /\ HashFound(hashTable, lastOp.file, lastOp.pageNo)
    /\ bufDescTable[HashLookup(hashTable, lastOp.file, lastOp.pageNo)].pinCnt = 0

\* ---------------------------------------------------------------- C7
\* C7: unPinPage of a (file, page) that is not resident raises nothing and
\* changes no descriptor, no frame, no table entry and not the clock hand.
C7_UnpinUnknownIsNoOp ==
    [][LET o == lastOp' IN
       (o.op = "unPinPage" /\ ~HashFound(hashTable, o.file, o.pageNo))
       => /\ o.result = "none"
          /\ UNCHANGED <<bufDescTable, bufPool, hashTable, clockHand, allocated>>]_vars

\* An unPinPage(f, p, true) of a page that is not resident, in a pool that
\* holds other pages.
C7_Witness ==
    /\ lastOp.op = "unPinPage" /\ lastOp.result = "none" /\ lastOp.dirty
    /\ ~HashFound(hashTable, lastOp.file, lastOp.pageNo)
    /\ hashTable # {}

\* ---------------------------------------------------------------- C8
\* C8: a frame that is dirty stays dirty over every call after which it
\* still holds the same page: no readPage hit and no unPinPage(f, p, false)
\* clears the bit, only eviction, flushFile and disposePage do, and they
\* empty the frame.
C8_DirtyMonotonic ==
    [][/\ \A f \in Frames :
          (/\ bufDescTable[f].valid /\ bufDescTable[f].dirty
           /\ bufDescTable'[f].valid
           /\ bufDescTable'[f].file = bufDescTable[f].file
           /\ bufDescTable'[f].pageNo = bufDescTable[f].pageNo)
          => bufDescTable'[f].dirty
       /\ \A f \in Frames :
          (/\ bufDescTable[f].valid /\ bufDescTable[f].dirty
           /\ ~bufDescTable'[f].dirty)
          => /\ lastOp'.op \in {"readPage", "allocPage", "flushFile", "disposePage"}
             /\ EntryOf(bufDescTable, f) \notin hashTable']_vars

\* An unPinPage(f, p, false) that succeeded on a page that is dirty.
C8_Witness ==
    /\ lastOp.op = "unPinPage" /\ lastOp.result = "none" /\ ~lastOp.dirty
    /\ HashFound(hashTable, lastOp.file, lastOp.pageNo)
    /\ bufDescTable[HashLookup(hashTable, lastOp.file, lastOp.pageNo)].dirty

\* ---------------------------------------------------------------- C9
\* C9: when flushFile(file) returns, no valid frame and no table entry
\* belongs to file, every page of file that was dirty at the call was passed
\* to writePage exactly once, and the frames and entries of other files are
\* as before.
C9_FlushFileEmptiesFile ==
    [][LET o == lastOp' IN
       (o.op = "flushFile" /\ o.result = "none")
       => /\ \A f \in Frames :
                ~(bufDescTable'[f].valid /\ bufDescTable'[f].file = o.file)
          /\ \A e \in hashTable' : e.file # o.file
          /\ \A f \in Frames :
                (/\ bufDescTable[f].valid /\ bufDescTable[f].file = o.file
                 /\ bufDescTable[f].dirty)
                => Cardinality(Calls(o.io, IoCall("writePage", o.file,
                                                  bufDescTable[f].pageNo))) = 1
          /\ \A f \in Frames :
                bufDescTable[f].file # o.file
                => /\ bufDescTable'[f] = bufDescTable[f]
                   /\ bufPool'[f] = bufPool[f]
          /\ {e \in hashTable' : e.file # o.file} = {e \in hashTable : e.file # o.file}
          /\ hashTable' \subseteq hashTable]_vars

\* A flushFile that returned after writing a page back, with a page of
\* another file still resident.
C9_Witness ==
    /\ lastOp.op = "flushFile" /\ lastOp.result = "none"
    /\ CallsOf(lastOp.io, "writePage") # {}
    /\ hashTable # {}

\* ---------------------------------------------------------------- C10
\* C10: flushFile(file) on a file with a pinned resident page fails with
\* PagePinned and leaves every clean frame of that file valid, unchanged and
\* in the table.
C10_FlushPinnedKeepsCleanFrames ==
    [][LET o == lastOp' IN
       (/\ o.op = "flushFile"
        /\ \E f \in Frames : /\ bufDescTable[f].valid
                             /\ bufDescTable[f].file = o.file
                             /\ bufDescTable[f].pinCnt > 0)
       => /\ o.result = "PagePinned"
          /\ \A g \in Frames :
                (/\ bufDescTable[g].valid /\ bufDescTable[g].file = o.file
                 /\ ~bufDescTable[g].dirty)
                => /\ bufDescTable'[g] = bufDescTable[g]
                   /\ EntryOf(bufDescTable, g) \in hashTable']_vars

\* ---------------------------------------------------------------- C11
\* C11: a readPage or allocPage that fails with BufferExceededException
\* leaves every descriptor field (valid, file, pageNo, pinCnt, dirty,
\* refbit) and the hash table as they were before the call.
C11_ExhaustedLeavesPoolUnchanged ==
    [][(/\ lastOp'.op \in {"readPage", "allocPage"}
        /\ lastOp'.result = "BufferExceeded")
       => UNCHANGED <<bufDescTable, hashTable>>]_vars

\* ---------------------------------------------------------------- write-back failure
\* Does allocBuf, run on s, reach the writePage of line 90 (a dirty victim)?
WritesVictim(s) ==
    LET r == AllocLoop(s, 0) IN r.found /\ Len(r.s.io) > Len(s.io)

\* allocBuf when the file->writePage of line 90 throws: the loop has removed
\* the victim's entry (line 86) and reset its dirty bit (line 89); Clear
\* (line 97) is not reached and the exception leaves allocBuf and its caller.
allocBufWriteFails(s) ==
    [s |-> AllocLoop(s, 0).s, exc |-> "WriteFailed", frame |-> NoFrame]

\* readPage of a page that is not resident, with a failing write-back
ReadPageWriteFails(file, pageNo) ==
    /\ ~HashFound(hashTable, file, pageNo)
    /\ WritesVictim(PoolState)
    /\ Install("readPage", file, pageNo, FALSE, allocBufWriteFails(PoolState))
    /\ UNCHANGED <<allocated, clearKeepsFile>>

\* allocPage with a failing write-back
AllocPageWriteFails(file) ==
    /\ WritesVictim(PoolState)
    /\ Install("allocPage", file, 0, FALSE, allocBufWriteFails(PoolState))
    /\ UNCHANGED <<allocated, clearKeepsFile>>

\* No write-back has failed so far.
NoWriteFailed == lastOp.result # "WriteFailed"

\* The manager up to and including its first failed write-back.
NextWriteFail ==
    \/ \E file \in Files, pageNo \in Pages : NoWriteFailed /\ ReadPage(file, pageNo)
    \/ \E file \in Files, pageNo \in Pages, dirty \in BOOLEAN :
           NoWriteFailed /\ UnPinPage(file, pageNo, dirty)
    \/ \E file \in Files : NoWriteFailed /\ AllocPage(file)
    \/ \E file \in Files : NoWriteFailed /\ FlushFile(file)
    \/ \E file \in Files, pageNo \in Pages : NoWriteFailed /\ DisposePage(file, pageNo)
    \/ \E file \in Files, pageNo \in Pages :
           NoWriteFailed /\ ReadPageWriteFails(file, pageNo)
    \/ \E file \in Files : NoWriteFailed /\ AllocPageWriteFails(file)

SpecWriteFail == Init /\ [][NextWriteFail]_vars

\* ---------------------------------------------------------------- C12
\* C12: when file->writePage fails while allocBuf evicts a dirty victim, the
\* victim (the frame under the clock hand) is still valid, its entry is
\* still in the hash table and its dirty bit is still set.
C12_EvictionAtomicOnWriteFailure ==
    [][lastOp'.result = "WriteFailed"
       => LET v == clockHand' IN
          /\ bufDescTable'[v].valid
          /\ bufDescTable'[v].dirty
          /\ EntryOf(bufDescTable, v) \in hashTable'
          /\ EntryOf(bufDescTable', v) = EntryOf(bufDescTable, v)]_vars

\* ---------------------------------------------------------------- C13
\* C13: when file->readPage fails in a readPage miss, the call ends with
\* that error, the frame allocBuf handed out (the frame under the clock
\* hand) is empty with pinCnt = 0, and neither the hash table nor any valid
\* frame holds the requested (file, pageNo).
C13_FailedReadLeavesFrameEmpty ==
    [][LET o == lastOp' IN
       (o.op = "readPage" /\ CallsOf(o.io, "readPage") # {} /\ o.result # "none")
       => /\ o.result = "InvalidPage" /\ o.frame = NoFrame
          /\ ~bufDescTable'[clockHand'].valid
          /\ bufDescTable'[clockHand'].pinCnt = 0
          /\ ~HashFound(hashTable', o.file, o.pageNo)
          /\ \A f \in Frames :
                ~(/\ bufDescTable'[f].valid
                  /\ bufDescTable'[f].file = o.file
                  /\ bufDescTable'[f].pageNo = o.pageNo)]_vars

\* A readPage that evicted a dirty victim and then failed in file->readPage.
C13_Witness ==
    /\ lastOp.op = "readPage" /\ lastOp.result = "InvalidPage"
    /\ Len(lastOp.io) = 2
    /\ lastOp.io[1].call = "writePage" /\ lastOp.io[2].call = "readPage"

\* ---------------------------------------------------------------- C14
\* The sum of pinCnt over the frames in F.
RECURSIVE SumPins(_, _)
SumPins(desc, F) ==
    IF F = {} THEN 0
    ELSE LET f == CHOOSE x \in F : TRUE
         IN  desc[f].pinCnt + SumPins(desc, F \ {f})

\* C14: the sum of pinCnt equals the number of outstanding handles. Both are
\* 0 after construction, so the equation holds after every operation iff
\* every call changes the sum by the handles it hands out or takes back: +1
\* for a readPage or allocPage that returns, -1 for an unPinPage that returns
\* on a resident page, 0 for a call that fails and for flushFile and
\* disposePage, which take no handle back. (An unPinPage of a page that is
\* not resident is left free.)
C14_PinSumTracksHandles ==
    [][LET o == lastOp'
           delta == SumPins(bufDescTable', Frames) - SumPins(bufDescTable, Frames)
       IN  /\ (o.op \in {"readPage", "allocPage"} /\ o.result = "none") => delta = 1
           /\ (/\ o.op = "unPinPage" /\ o.result = "none"
               /\ HashFound(hashTable, o.file, o.pageNo)) => delta = 0 - 1
           /\ o.result # "none" => delta = 0
           /\ o.op \in {"flushFile", "disposePage"} => delta = 0]_vars

\* ---------------------------------------------------------------- C15
\* C15: after disposePage(f, p) no valid frame holds (f, p), the hash table
\* has no entry for it, the frame that held it is empty with pinCnt = 0 and
\* not dirty, and file->deletePage(p) was called exactly once, whether the
\* page was resident, dirty or pinned or not; so also when the call follows
\* the allocPage that returned the page.
C15_DisposeLeavesNoResidue ==
    [][LET o == lastOp' IN
       o.op = "disposePage"
       => /\ o.result = "none"
          /\ ~HashFound(hashTable', o.file, o.pageNo)
          /\ \A f \in Frames :
                ~(/\ bufDescTable'[f].valid
                  /\ bufDescTable'[f].file = o.file
                  /\ bufDescTable'[f].pageNo = o.pageNo)
          /\ \A f \in Frames :
                (/\ bufDescTable[f].valid
                 /\ bufDescTable[f].file = o.file
                 /\ bufDescTable[f].pageNo = o.pageNo)
                => /\ ~bufDescTable'[f].valid
                   /\ bufDescTable'[f].pinCnt = 0
                   /\ ~bufDescTable'[f].dirty
          /\ Cardinality(CallsOf(o.io, "deletePage")) = 1
          /\ Cardinality(Calls(o.io, IoCall("deletePage", o.file, o.pageNo))) = 1
          /\ o.pageNo \notin allocated'[o.file]]_vars

\* A disposePage of a page that was resident and dirty (its write-back is
\* among the File calls of the call), in a pool that holds another page.
C15_Witness ==
    /\ lastOp.op = "disposePage" /\ lastOp.result = "none"
    /\ CallsOf(lastOp.io, "writePage") # {}
    /\ hashTable # {}

\* ---------------------------------------------------------------- C16
\* A descriptor without its refbit.
NoRefbit(d) == [d EXCEPT !.refbit = FALSE]

\* C16 as stated, for a page that is already resident: readPage(f, p)
\* followed by unPinPage(f, p, false) leaves the hash table and every
\* field of every descriptor, refbit included, as before the readPage. The
\* readPage is a step of the manager; unPinPage is applied to the state the
\* step leaves.
C16_ReadUnpinRestoresAll ==
    [][LET o == lastOp'
           u == unPinPage(PoolState', o.file, o.pageNo, FALSE)
       IN  (/\ o.op = "readPage" /\ o.result = "none"
            /\ HashFound(hashTable, o.file, o.pageNo))
           => /\ u.exc = "none"
              /\ u.s.ht = hashTable
              /\ u.s.desc = bufDescTable]_vars

\* C16 amended: after a readPage(f, p) that returns and the
\* unPinPage(f, p, false) that follows it, every frame other than the one
\* that holds (f, p) has the valid, file, pageNo, pinCnt and dirty it had
\* before the readPage and the same table entry, and the frame of (f, p)
\* holds it unpinned as often as before; when (f, p) was resident before the
\* pair, the hash table, the frames, the clock hand and every descriptor
\* are as before, except that the refbit of the frame of (f, p) is set.
C16_ReadUnpinRestoresAllButRefbit ==
    [][LET o == lastOp'
           f == o.frame
           hit == HashFound(hashTable, o.file, o.pageNo)
           u == unPinPage(PoolState', o.file, o.pageNo, FALSE)
       IN  (o.op = "readPage" /\ o.result = "none")
           => /\ u.exc = "none"
              /\ \A g \in Frames \ {f} :
                    NoRefbit(u.s.desc[g]) = NoRefbit(bufDescTable[g])
              /\ {e \in u.s.ht : e.frameNo # f} = {e \in hashTable : e.frameNo # f}
              /\ NoRefbit(u.s.desc[f]) =
                    IF hit THEN NoRefbit(bufDescTable[f])
                    ELSE [Set(o.file, o.pageNo) EXCEPT !.pinCnt = 0]
              /\ [file |-> o.file, pageNo |-> o.pageNo, frameNo |-> f] \in u.s.ht
              /\ hit => /\ u.s.ht = hashTable
                        /\ u.s.pool = bufPool
                        /\ u.s.hand = clockHand
                        /\ u.s.desc = [bufDescTable EXCEPT ![f].refbit = TRUE]]_vars

\* An unPinPage(f, p, false) that returned on a page that is dirty and whose
\* refbit a readPage hit has set.
C16_Witness ==
    /\ lastOp.op = "unPinPage" /\ lastOp.result = "none" /\ ~lastOp.dirty
    /\ HashFound(hashTable, lastOp.file, lastOp.pageNo)
    /\ LET d == bufDescTable[HashLookup(hashTable, lastOp.file, lastOp.pageNo)]
       IN  d.refbit /\ d.dirty /\ d.pinCnt = 0

\* ---------------------------------------------------------------- teardown
\* The for loop of ~BufMgr (lines 48-49), from frame i on: flushFile of the
\* file of every frame that is dirty. An exception of flushFile leaves the
\* destructor there; the delete[] of lines 51-52 are not reached.
RECURSIVE DtorLoop(_, _, _)
DtorLoop(s, keep, i) ==
    IF i >= NumBufs THEN [s |-> s, exc |-> "none", frame |-> NoFrame]
    ELSE IF s.desc[i].dirty
         THEN LET r == flushFile(s, keep, s.desc[i].file)
              IN  IF r.exc # "none" THEN r ELSE DtorLoop(r.s, keep, i + 1)
    ELSE DtorLoop(s, keep, i + 1)

\* BufMgr::~BufMgr
Destroy ==
    /\ Install("~BufMgr", NoFile, 0, FALSE, DtorLoop(PoolState, clearKeepsFile, 0))
    /\ UNCHANGED <<allocated, clearKeepsFile>>

\* The manager has not been destroyed.
Live == lastOp.op # "~BufMgr"

\* The methods of a live manager, and its destruction.
NextDtor ==
    \/ \E file \in Files, pageNo \in Pages : Live /\ ReadPage(file, pageNo)
    \/ \E file \in Files, pageNo \in Pages, dirty \in BOOLEAN :
           Live /\ UnPinPage(file, pageNo, dirty)
    \/ \E file \in Files : Live /\ AllocPage(file)
    \/ \E file \in Files : Live /\ FlushFile(file)
    \/ \E file \in Files, pageNo \in Pages : Live /\ DisposePage(file, pageNo)
    \/ Live /\ Destroy

SpecDtor == Init /\ [][NextDtor]_vars

\* ---------------------------------------------------------------- C17
\* C17: the destructor writes every dirty frame back through its file and
\* runs to completion, also when frames are still pinned.
C17_TeardownFlushesAll ==
    [][lastOp'.op = "~BufMgr"
       => /\ lastOp'.result = "none"
          /\ \A f \in Frames :
                (bufDescTable[f].valid /\ bufDescTable[f].dirty)
                => Calls(lastOp'.io, IoCall("writePage", bufDescTable[f].file,
                                            bufDescTable[f].pageNo)) # {}]_vars

\* ---------------------------------------------------------------- concurrent readPage
\* readPage has no lock; the calls of several threads interleave at the disk
\* I/O of line 123. The part of readPage before it: lookup and, on a miss,
\* allocBuf (lines 116-122).
ReadBegin(t, file, pageNo) ==
    /\ pending[t].pc = "idle"
    /\ LET hit == HashFound(hashTable, file, pageNo)
           r == IF hit THEN readPage(PoolState, clearKeepsFile, allocated, file, pageNo)
                ELSE allocBuf(PoolState, clearKeepsFile)
           suspended == ~hit /\ r.exc = "none"
           call == [pc |-> IF suspended THEN "io" ELSE "done",
                    file |-> file, pageNo |-> pageNo, frame |-> r.frame,
                    result |-> r.exc,
                    io |-> IF suspended
                           THEN Append(r.s.io, IoCall("readPage", file, pageNo))
                           ELSE r.s.io]
       IN  /\ hit => bufDescTable[HashLookup(hashTable, file, pageNo)].pinCnt < MaxPin
           /\ bufDescTable' = r.s.desc
           /\ bufPool' = r.s.pool
           /\ hashTable' = r.s.ht
           /\ clockHand' = r.s.hand
           /\ pending' = [pending EXCEPT ![t] = call]
           /\ lastOp' = IF suspended THEN lastOp
                        ELSE [op |-> "readPage", file |-> file, pageNo |-> pageNo,
                              dirty |-> FALSE, result |-> call.result,
                              frame |-> call.frame, io |-> call.io]
    /\ UNCHANGED <<allocated, clearKeepsFile>>

\* The part of readPage from the return of file->readPage on (lines 123-125):
\* the page is stored in the frame, the key inserted and the frame Set.
ReadEnd(t) ==
    /\ pending[t].pc = "io"
    /\ LET p == pending[t]
           f == p.frame
           exc == IF p.pageNo \notin allocated[p.file] THEN "InvalidPage"
                  ELSE IF HashFound(hashTable, p.file, p.pageNo)
                       THEN "HashAlreadyPresent"
                  ELSE "none"
       IN  /\ bufPool' = IF exc = "InvalidPage" THEN bufPool
                         ELSE [bufPool EXCEPT ![f] = p.pageNo]
           /\ hashTable' = IF exc = "none"
                           THEN HashInsert(hashTable, p.file, p.pageNo, f)
                           ELSE hashTable
           /\ bufDescTable' = IF exc = "none"
                              THEN [bufDescTable EXCEPT ![f] = Set(p.file, p.pageNo)]
                              ELSE bufDescTable
           /\ pending' = [pending EXCEPT ![t] =
                             [p EXCEPT !.pc = "done", !.result = exc,
                                       !.frame = IF exc = "none" THEN f ELSE NoFrame]]
           /\ lastOp' = [op |-> "readPage", file |-> p.file, pageNo |-> p.pageNo,
                         dirty |-> FALSE, result |-> exc,
                         frame |-> IF exc = "none" THEN f ELSE NoFrame, io |-> p.io]
    /\ UNCHANGED <<clockHand, allocated, clearKeepsFile>>

\* Every thread calls readPage once.
NextConc ==
    \/ \E t \in Threads, file \in Files, pageNo \in Pages : ReadBegin(t, file, pageNo)
    \/ \E t \in Threads : ReadEnd(t)

SpecConc == Init /\ [][NextConc]_vars

\* ---------------------------------------------------------------- C18
\* C18: when two threads have called readPage of the same page, which was in
\* the file and not in the pool, and both calls have returned, then both
\* returned the same frame, the frame has pinCnt 2, the file was read once
\* and the page table has one entry for the page.
C18_ConcurrentReadsShareFrame ==
    \A t1, t2 \in Threads :
        (/\ t1 # t2
         /\ pending[t1].pc = "done" /\ pending[t2].pc = "done"
         /\ \A t \in Threads \ {t1, t2} : pending[t].pc = "idle"
         /\ pending[t1].file = pending[t2].file
         /\ pending[t1].pageNo = pending[t2].pageNo
         /\ pending[t1].pageNo \in allocated[pending[t1].file])
        => /\ pending[t1].result = "none" /\ pending[t2].result = "none"
           /\ pending[t1].frame = pending[t2].frame
           /\ pending[t1].frame \in Frames
           /\ bufDescTable[pending[t1].frame].pinCnt = 2
           /\ Cardinality(CallsOf(pending[t1].io, "readPage"))
                + Cardinality(CallsOf(pending[t2].io, "readPage")) = 1
           /\ Cardinality(HashEntries(hashTable, pending[t1].file,
                                      pending[t1].pageNo)) = 1

\* ---------------------------------------------------------------- C19
\* Every frame is valid, unpinned and has its refbit set.
AllReferenced ==
    \A f \in Frames :
        bufDescTable[f].valid /\ bufDescTable[f].pinCnt = 0 /\ bufDescTable[f].refbit

\* C19: when every frame is valid, unpinned and has its refbit set, the
\* allocBuf of a readPage miss or of an allocPage advances the clock hand
\* NumBufs + 1 times, clears every refbit and takes the frame that follows the
\* position the hand started from.
C19_ClockFullSweep ==
    [][(/\ AllReferenced
        /\ \/ lastOp'.op = "allocPage"
           \/ /\ lastOp'.op = "readPage"
              /\ ~HashFound(hashTable, lastOp'.file, lastOp'.pageNo))
       => LET a == allocBuf(PoolState, clearKeepsFile)
          IN  /\ a.exc = "none"
              /\ a.advances = NumBufs + 1
              /\ a.frame = (clockHand + 1) % NumBufs
              /\ \A f \in Frames : ~a.s.desc[f].refbit
              /\ clockHand' = (clockHand + 1) % NumBufs
              /\ \A f \in Frames : ~bufDescTable'[f].refbit
              /\ lastOp'.result = "none" => lastOp'.frame = (clockHand + 1) % NumBufs
              /\ EntryOf(bufDescTable, (clockHand + 1) % NumBufs) \notin hashTable'
              /\ \A f \in Frames \ {(clockHand + 1) % NumBufs} :
                    EntryOf(bufDescTable, f) \in hashTable']_vars

\* A pool whose frames are all valid, unpinned and referenced, where the next
\* allocBuf sweeps the whole pool.
C19_Witness ==
    /\ AllReferenced
    /\ allocBuf(PoolState, clearKeepsFile).advances = NumBufs + 1

\* ---------------------------------------------------------------- C20
\* C20: an allocPage that fails with BufferExceededException has made no
\* file->allocatePage call: no page of any file is allocated and no entry is
\* added to the hash table.
C20_ExhaustedAllocPageLeavesFile ==
    [][(lastOp'.op = "allocPage" /\ lastOp'.result = "BufferExceeded")
       => /\ CallsOf(lastOp'.io, "allocatePage") = {}
          /\ allocated' = allocated
          /\ hashTable' \subseteq hashTable]_vars

\* An allocPage has failed with BufferExceededException while the file had a
\* page number left to allocate.
C20_Witness ==
    /\ lastOp.op = "allocPage" /\ lastOp.result = "BufferExceeded"
    /\ \E file \in Files : Pages \ allocated[file] # {}

====
